---------------------------- MODULE Spec2Model ----------------------------
(***************************************************************************)
(* A model of MusicDownloader.py: the title parser, the MusicBrainz lookup, *)
(* the single-song pipeline and the playlist (album) pipeline.              *)
(*                                                                          *)
(* Python strings are sequences of one-character strings, so that           *)
(* splitting, trimming, slicing and sanitising are computed character by    *)
(* character.  Python dicts are functions whose DOMAIN is the set of keys   *)
(* present.  Python's None is the value None below.                         *)
(***************************************************************************)
EXTENDS Integers, Sequences, FiniteSets, TLC

VARIABLES
    \* MusicDownloader.__init__
    auto_metadata,       \* self.auto_metadata
    download_album_art,  \* self.download_album_art
    \* extract_title_artist: position, argument, returned artist and title
    p_pc, p_title, p_artist, p_out,
    \* enrich_metadata / search_musicbrainz / get_cover_art_url
    l_pc,            \* position in enrich_metadata
    basic_metadata,  \* the argument of enrich_metadata, updated in place
    l_passed,        \* the argument as it was passed
    l_kind,          \* the answer of the recording search: its kind
    l_recordings,    \* and the recordings in it, with their ratios
    l_best_match,    \* index of best_match in the recordings, 0 for None
    l_best_score,    \* best_score, in thousandths
    l_metadata,      \* the dict metadata of lines 132-140
    l_cover,         \* the answer of the cover art archive
    mb_metadata,     \* what search_musicbrainz returned
    l_raised,        \* did search_musicbrainz raise to enrich_metadata
    \* download_song
    s_pc,            \* position in download_song
    s_metadata,      \* the argument metadata: what the user supplied
    s_probe,         \* the probe: "raise", "none" (no info) or "info"
    s_info,          \* info of the probe
    s_youtube,       \* youtube_metadata
    s_mb,            \* what the lookup returned to enrich_metadata
    final_metadata,  \* combined_metadata, then final_metadata
    output_path,     \* output_path
    s_file,          \* the download: "raise", "missing" or "exists"
    s_written,       \* what update_metadata did
    s_save,          \* audio.save: "none" (not tried), "ok" or "raise"
    s_return,        \* the value returned: the file (TRUE) or None (FALSE)
    \* download_album
    a_pc,            \* position in download_album
    album_metadata,  \* the argument album_metadata: what the user supplied
    a_n,             \* len(info['entries'])
    artist_name,     \* artist_name
    album_name,      \* album_name
    album_path,      \* album_path
    base_metadata,   \* base_metadata
    a_fetched,       \* how many entries extract_info(download=True) has downloaded
    a_idx,           \* idx of the entry processed last, 0 before the loop
    downloaded_files, \* downloaded_files: the file of entry i is i
    failed_videos,   \* failed_videos
    a_outcome,       \* the last entry: "unavailable", "missing", "error", "written"
    a_entry,         \* the last entry
    track_metadata,  \* track_metadata as passed to enrich_metadata
    a_mb,            \* what the lookup returned for the last entry
    final_track_metadata, \* the record passed to update_metadata
    a_written,       \* what update_metadata did for the last entry
    \* get_metadata_from_youtube
    e_pc,            \* position in get_metadata_from_youtube
    e_info,          \* the argument info
    e_raised,        \* did the call raise
    e_metadata       \* the record returned

parserVars == <<p_pc, p_title, p_artist, p_out>>
cfgVars == <<auto_metadata, download_album_art>>
lookupVars == <<l_pc, basic_metadata, l_passed, l_kind, l_recordings,
                l_best_match, l_best_score, l_metadata, l_cover, mb_metadata,
                l_raised>>
songVars == <<s_pc, s_metadata, s_probe, s_info, s_youtube, s_mb, final_metadata,
              output_path, s_file, s_written, s_save, s_return>>
albumVars == <<a_pc, album_metadata, a_n, artist_name, album_name, album_path,
               base_metadata, a_fetched, a_idx, downloaded_files, failed_videos,
               a_outcome,
               a_entry, track_metadata, a_mb, final_track_metadata, a_written>>
extractVars == <<e_pc, e_info, e_raised, e_metadata>>
vars == <<cfgVars, parserVars, lookupVars, songVars, albumVars, extractVars>>

\* what the actions of one component leave alone
notParser == <<cfgVars, lookupVars, songVars, albumVars, extractVars>>
notLookup == <<cfgVars, parserVars, songVars, albumVars, extractVars>>
notSong == <<cfgVars, parserVars, lookupVars, albumVars, extractVars>>
notAlbum == <<cfgVars, parserVars, lookupVars, songVars, extractVars>>
notExtract == <<cfgVars, parserVars, lookupVars, songVars, albumVars>>

-----------------------------------------------------------------------------
(* Bounds *)

\* longest title enumerated exhaustively over TitleAlphabet
MaxTitleLen == 4

\* most recordings in an answer of the recording search
MaxRecordings == 2

\* most images in an answer of the cover art archive
MaxImages == 2

\* most entries in a playlist
MaxEntries == 5

-----------------------------------------------------------------------------
(* Strings *)

None == <<"None">>

UpperCase == <<"A","B","C","D","E","F","G","H","I","J","K","L","M",
               "N","O","P","Q","R","S","T","U","V","W","X","Y","Z">>
LowerCase == <<"a","b","c","d","e","f","g","h","i","j","k","l","m",
               "n","o","p","q","r","s","t","u","v","w","x","y","z">>

\* str.lower() on one character
LowerChar(c) ==
    IF \E i \in 1..26 : UpperCase[i] = c
    THEN LowerCase[CHOOSE i \in 1..26 : UpperCase[i] = c]
    ELSE c

\* str.lower()
Lower(s) == [i \in 1..Len(s) |-> LowerChar(s[i])]

\* s[from:] with a 1-based first index
Drop(s, from) == SubSeq(s, from, Len(s))

\* s[:n]
Take(s, n) == SubSeq(s, 1, IF n < Len(s) THEN n ELSE Len(s))

\* does sub occur in s at position i
OccursAt(s, sub, i) ==
    /\ i >= 1
    /\ i + Len(sub) - 1 <= Len(s)
    /\ SubSeq(s, i, i + Len(sub) - 1) = sub

\* sub in s
Contains(s, sub) == \E i \in 1..(Len(s) + 1) : OccursAt(s, sub, i)

\* s.find(sub), 1-based; 0 when absent
Find(s, sub) ==
    IF Contains(s, sub)
    THEN CHOOSE i \in 1..(Len(s) + 1) :
            /\ OccursAt(s, sub, i)
            /\ \A j \in 1..(i - 1) : ~OccursAt(s, sub, j)
    ELSE 0

\* str.strip(): the titles of the model have the blank as only white space
RECURSIVE LStrip(_)
LStrip(s) == IF s # <<>> /\ Head(s) = " " THEN LStrip(Tail(s)) ELSE s

RECURSIVE RStrip(_)
RStrip(s) ==
    IF s # <<>> /\ s[Len(s)] = " " THEN RStrip(SubSeq(s, 1, Len(s) - 1)) ELSE s

Strip(s) == RStrip(LStrip(s))

\* s.replace(old, new), leftmost non-overlapping occurrences
RECURSIVE Replace(_, _, _)
Replace(s, old, new) ==
    IF s = <<>> THEN <<>>
    ELSE IF OccursAt(s, old, 1)
         THEN new \o Replace(Drop(s, Len(old) + 1), old, new)
         ELSE <<Head(s)>> \o Replace(Tail(s), old, new)

\* all strings over alphabet A of length at most n
RECURSIVE StringsUpTo(_, _)
StringsUpTo(A, n) ==
    IF n = 0 THEN {<<>>}
    ELSE LET shorter == StringsUpTo(A, n - 1)
         IN  shorter \cup {Append(s, c) : s \in {t \in shorter : Len(t) = n - 1}, c \in A}

-----------------------------------------------------------------------------
(* sanitize_filename *)

InvalidChars == {"\\", "/", "*", "?", ":", "\"", "<", ">", "|"}

sanitize_filename(filename) == SelectSeq(filename, LAMBDA c : c \notin InvalidChars)

-----------------------------------------------------------------------------
(* extract_title_artist *)

\* the character U+2013 (en dash)
EnDash == "ndash"

UnknownArtist == <<"U","n","k","n","o","w","n"," ","A","r","t","i","s","t">>
UnknownTitle  == <<"U","n","k","n","o","w","n"," ","T","i","t","l","e">>

\* The patterns of lines 67-71, by their separator character.
patterns == <<"-", EnDash, ":">>

\* re.match(r"^(.*?)\s*<c>\s*(.*?)$", title): the lazy first group and the
\* optional white space make the pattern match at the FIRST occurrence of
\* the bare character c, surrounded by blanks or not.
PatternMatches(title, c) == Contains(title, <<c>>)

\* (match.group(1).strip(), match.group(2).strip())
PatternGroups(title, c) ==
    LET j == Find(title, <<c>>)
    IN  <<Strip(SubSeq(title, 1, j - 1)), Strip(Drop(title, j + 1))>>

FeatMarkers == << <<" ","f","e","a","t">>, <<" ","f","t",".">>, <<" ","f","t"," ">> >>

FeatSeparators == << <<" ","f","e","a","t","."," ">>, <<" ","f","e","a","t"," ">>,
                     <<" ","f","t","."," ">>, <<" ","f","t"," ">> >>
FeatJoin == <<" ","f","e","a","t","."," ">>

\* the loop of lines 82-86, from separator k on: the membership test is
\* case-insensitive, the split is case-sensitive
RECURSIVE FeatSplit(_, _)
FeatSplit(title, k) ==
    IF k > Len(FeatSeparators) THEN <<UnknownArtist, title>>
    ELSE LET separator == FeatSeparators[k]
             at == Find(title, separator)
         IN  IF Contains(Lower(title), Lower(separator)) /\ at > 0
             THEN LET left  == Strip(SubSeq(title, 1, at - 1))
                      right == Strip(Drop(title, at + Len(separator)))
                  IN  <<left, left \o FeatJoin \o right>>
             ELSE FeatSplit(title, k + 1)

\* a mutant: the featuring text is cut off the artist of a separator match
extract_title_artist_featcut(title) ==
    IF \E k \in 1..Len(patterns) : PatternMatches(title, patterns[k])
    THEN LET k == CHOOSE i \in 1..Len(patterns) :
                     /\ PatternMatches(title, patterns[i])
                     /\ \A h \in 1..(i - 1) : ~PatternMatches(title, patterns[h])
             g == PatternGroups(title, patterns[k])
         IN  <<FeatSplit(g[1], 1)[1], g[2]>>
    ELSE IF \E m \in 1..Len(FeatMarkers) : Contains(Lower(title), FeatMarkers[m])
         THEN FeatSplit(title, 1)
         ELSE <<UnknownArtist, title>>

\* <<artist, title>>
extract_title_artist(title) ==
    IF \E k \in 1..Len(patterns) : PatternMatches(title, patterns[k])
    THEN LET k == CHOOSE i \in 1..Len(patterns) :
                     /\ PatternMatches(title, patterns[i])
                     /\ \A h \in 1..(i - 1) : ~PatternMatches(title, patterns[h])
         IN  PatternGroups(title, patterns[k])
    ELSE IF \E m \in 1..Len(FeatMarkers) : Contains(Lower(title), FeatMarkers[m])
         THEN FeatSplit(title, 1)
         ELSE <<UnknownArtist, title>>

-----------------------------------------------------------------------------
(* Dicts *)

EmptyDict == [k \in {} |-> None]

\* {**a, **b}, and the loop "for key, value in b.items(): a[key] = value"
Merge(a, b) ==
    [k \in (DOMAIN a) \cup (DOMAIN b) |-> IF k \in DOMAIN b THEN b[k] ELSE a[k]]

\* {k: v for k, v in d.items() if v is not None}
FilterNone(d) == [k \in {x \in DOMAIN d : d[x] # None} |-> d[k]]

\* d.get(key): None when the key is absent
Get(d, key) == IF key \in DOMAIN d THEN d[key] ELSE None

\* d.get(key, default)
GetOr(d, key, default) == IF key \in DOMAIN d THEN d[key] ELSE default

\* truth value of an optional string: None and "" are false
Truthy(v) == v # None /\ v # <<>>

\* d with d[key] = value
Put(d, key, value) == Merge(d, [k \in {key} |-> value])

-----------------------------------------------------------------------------
(* search_musicbrainz: scoring *)

\* SequenceMatcher(...).ratio() is the library's; a recording carries the two
\* ratios it has against the query, title_score and artist_score, in
\* hundredths.  The weighted score is in thousandths.  On the ratios of
\* ScoreValues the double arithmetic of line 125 orders the scores and
\* compares them with 0.6 as the exact arithmetic below does.
TitleWeight == 6
ArtistWeight == 4
DefaultArtistScore == 50
AcceptThreshold == 600
InitialBestScore == 0

\* lines 119-125
Score(recording, has_artist) ==
    LET title_score == recording.title_score
        artist_score == IF has_artist THEN recording.artist_score
                        ELSE DefaultArtistScore
    IN  (title_score * TitleWeight) + (artist_score * ArtistWeight)

\* a mutant: a later recording of equal score replaces the best match
RECURSIVE ScoreLoop_lasttie(_, _, _, _, _)
ScoreLoop_lasttie(recordings, has_artist, i, best_match, best_score) ==
    IF i > Len(recordings) THEN <<best_match, best_score>>
    ELSE LET score == Score(recordings[i], has_artist)
         IN  IF score >= best_score /\ score > 0
             THEN ScoreLoop_lasttie(recordings, has_artist, i + 1, i, score)
             ELSE ScoreLoop_lasttie(recordings, has_artist, i + 1, best_match, best_score)

\* the loop of lines 113-129 from recording i on: <<best_match, best_score>>
RECURSIVE ScoreLoop(_, _, _, _, _)
ScoreLoop(recordings, has_artist, i, best_match, best_score) ==
    IF i > Len(recordings) THEN <<best_match, best_score>>
    ELSE LET score == Score(recordings[i], has_artist)
         IN  IF score > best_score
             THEN ScoreLoop(recordings, has_artist, i + 1, i, score)
             ELSE ScoreLoop(recordings, has_artist, i + 1, best_match, best_score)

\* a mutant: a score of exactly 0.6 is accepted
Accepted_atleast(best_match, best_score) ==
    best_match # 0 /\ best_score >= AcceptThreshold

\* line 131
Accepted(best_match, best_score) ==
    best_match # 0 /\ best_score > AcceptThreshold

-----------------------------------------------------------------------------
(* search_musicbrainz: the record built from the best match *)

CommaSpace == <<",", " ">>

\* ", ".join(names)
RECURSIVE Join(_)
Join(names) ==
    IF names = <<>> THEN <<>>
    ELSE IF Len(names) = 1 THEN names[1]
    ELSE names[1] \o CommaSpace \o Join(Tail(names))

\* lines 144-149: the names of the credits that carry one
RECURSIVE CreditNames(_)
CreditNames(credits) ==
    IF credits = <<>> THEN <<>>
    ELSE IF Head(credits).kind \in {"artist", "name"}
         THEN <<Head(credits).name>> \o CreditNames(Tail(credits))
         ELSE CreditNames(Tail(credits))

TagCount(tag) == IF "count" \in DOMAIN tag THEN tag["count"] ELSE 0

\* sorted(tags, key=count, reverse=True)[0]: the sort is stable, the first
\* tag of the greatest count comes first
TopTag(tags) ==
    tags[CHOOSE i \in 1..Len(tags) :
            /\ \A j \in 1..Len(tags) : TagCount(tags[j]) <= TagCount(tags[i])
            /\ \A j \in 1..(i - 1) : TagCount(tags[j]) < TagCount(tags[i])]

\* does building the record raise: the most popular tag has no "name"
BuildRaises(best) ==
    best.tags # <<>> /\ "name" \notin DOMAIN TopTag(best.tags)

YearLen == 4

\* lines 132-170: metadata before the cover art request, None values kept
BuildMetadataDict(best) ==
    LET artists == CreditNames(best.credits)
        has_release == best.releases # <<>>
        release == best.releases[1]
    IN  [title |-> best.title,
         artist |-> IF best.credits # <<>> /\ artists # <<>> THEN Join(artists) ELSE None,
         album |-> IF has_release THEN Get(release, "title") ELSE None,
         year |-> IF has_release /\ "date" \in DOMAIN release /\ Truthy(release["date"])
                  THEN Take(release["date"], YearLen) ELSE None,
         genre |-> IF best.tags # <<>> THEN TopTag(best.tags)["name"] ELSE None,
         track |-> IF has_release /\ "track-number" \in DOMAIN release
                   THEN release["track-number"] ELSE None,
         album_art_url |-> None]

\* lines 173-174: the release id the cover art is asked for, None for none
ReleaseId(best) ==
    IF best.releases # <<>> THEN Get(best.releases[1], "id") ELSE None

\* lines 183-185, a mutant: the exception leaves search_musicbrainz
TryExcept_reraise(raised, value) ==
    [raised |-> raised, value |-> IF raised THEN EmptyDict ELSE value]

\* lines 93 and 183-185: an exception in the body makes the result {}
TryExcept(raised, value) ==
    [raised |-> FALSE, value |-> IF raised THEN EmptyDict ELSE value]

-----------------------------------------------------------------------------
(* get_cover_art_url *)

\* lines 203-205: the first image that is flagged front, or the very first
\* image when none is; its "image" (None when it has none)
PickImage(images) ==
    LET any_front == \E j \in 1..Len(images) : images[j].front
        i == CHOOSE k \in 1..Len(images) :
                /\ (images[k].front \/ ~any_front)
                /\ \A h \in 1..(k - 1) : ~(images[h].front \/ ~any_front)
    IN  images[i].image

\* a mutant: a failure of the cover art request is not caught
get_cover_art_url_uncaught(cover) ==
    [raised |-> cover.kind \in {"transport_error", "bad_json"},
     url |-> IF cover.kind = "ok" /\ cover.images # <<>>
             THEN PickImage(cover.images) ELSE None]

\* lines 187-209: the url, or None; every exception is caught inside
get_cover_art_url(cover) ==
    [raised |-> FALSE,
     url |-> IF cover.kind = "ok" /\ cover.images # <<>>
             THEN PickImage(cover.images) ELSE None]

-----------------------------------------------------------------------------
(* enrich_metadata *)

\* a mutant: keys the record already has are kept
EnrichMerge_keep(basic, mb) == Merge(mb, basic)

\* lines 299-300
EnrichMerge(basic, mb) == Merge(basic, mb)

-----------------------------------------------------------------------------
(* get_metadata_from_youtube *)

S_Topic      == <<"T","o","p","i","c">>
S_DashTopic  == <<" ","-"," ","T","o","p","i","c">>
S_VEVO       == <<"V","E","V","O">>
S_music      == <<"m","u","s","i","c">>
S_entertainment == <<"e","n","t","e","r","t","a","i","n","m","e","n","t">>
S_Single     == <<"S","i","n","g","l","e">>
S_VariousArtists == <<"V","a","r","i","o","u","s"," ","A","r","t","i","s","t","s">>
S_UnknownAlbum == <<"U","n","k","n","o","w","n"," ","A","l","b","u","m">>

Digits == <<"0","1","2","3","4","5","6","7","8","9">>

\* str(n) of a natural number
RECURSIVE ToStr(_)
ToStr(n) ==
    IF n < 10 THEN <<Digits[n + 1]>>
    ELSE ToStr(n \div 10) \o <<Digits[(n % 10) + 1]>>

\* lines 248 and 430: the channel without " - Topic" and "VEVO", stripped
CleanChannel(channel) == Strip(Replace(Replace(channel, S_DashTopic, <<>>), S_VEVO, <<>>))

\* line 273: the categories that are not generic
RECURSIVE SpecificCategories(_)
SpecificCategories(categories) ==
    IF categories = <<>> THEN <<>>
    ELSE IF Lower(Head(categories)) \in {S_music, S_entertainment}
         THEN SpecificCategories(Tail(categories))
         ELSE <<Head(categories)>> \o SpecificCategories(Tail(categories))

ThumbArea(t) == GetOr(t, "width", 0) * GetOr(t, "height", 0)

\* line 282: sorted(..., reverse=True)[0], the sort being stable
LargestThumbnail(thumbnails) ==
    thumbnails[CHOOSE i \in 1..Len(thumbnails) :
        /\ \A j \in 1..Len(thumbnails) : ThumbArea(thumbnails[j]) <= ThumbArea(thumbnails[i])
        /\ \A j \in 1..(i - 1) : ThumbArea(thumbnails[j]) < ThumbArea(thumbnails[i])]

\* does the extraction raise: upload_date is None and is sliced (line 260)
GetMetadataRaises(info) ==
    "upload_date" \in DOMAIN info /\ info["upload_date"] = None

\* lines 227-228 and 239-250: the artist
YtArtist(info) ==
    LET artist == extract_title_artist(GetOr(info, "title", <<>>))[1]
    IN  IF /\ "channel" \in DOMAIN info
           /\ Truthy(info["channel"])
           /\ (artist = UnknownArtist \/ Contains(info["channel"], S_Topic))
           /\ CleanChannel(info["channel"]) # <<>>
        THEN CleanChannel(info["channel"])
        ELSE IF /\ "uploader" \in DOMAIN info
                /\ Truthy(info["uploader"])
                /\ artist = UnknownArtist
             THEN info["uploader"]
             ELSE artist

\* lines 263-267: is the genre taken from info["genre"], which is
\* [kind |-> "list" or "str", value |-> the list or the string]
YtHasOwnGenre(info) ==
    /\ "genre" \in DOMAIN info
    /\ \/ (info["genre"].kind = "list" /\ info["genre"].value # <<>>)
       \/ info["genre"].kind = "str"

\* lines 270-275: is the genre taken from the categories
YtHasCategoryGenre(info) ==
    /\ "categories" \in DOMAIN info
    /\ info["categories"] # <<>>
    /\ ~YtHasOwnGenre(info)
    /\ SpecificCategories(info["categories"]) # <<>>

\* the keys of the record of lines 225-286
YtHas(info, key) ==
    CASE key \in {"title", "artist"} -> TRUE
      [] key = "album" -> "album" \in DOMAIN info
      [] key = "track" -> "track" \in DOMAIN info \/ "playlist_index" \in DOMAIN info
      [] key = "year" -> "upload_date" \in DOMAIN info
      [] key = "genre" -> YtHasOwnGenre(info) \/ YtHasCategoryGenre(info)
      [] key = "album_art_url" ->
            \/ "thumbnail" \in DOMAIN info
            \/ ("thumbnails" \in DOMAIN info /\ info["thumbnails"] # <<>>)

\* and their values
YtValue(info, key) ==
    CASE key = "title" -> extract_title_artist(GetOr(info, "title", <<>>))[2]
      [] key = "artist" -> YtArtist(info)
      [] key = "album" -> info["album"]
      [] key = "track" -> IF "track" \in DOMAIN info THEN info["track"]
                          ELSE ToStr(info["playlist_index"])
      [] key = "year" -> Take(info["upload_date"], YearLen)
      [] key = "genre" -> IF YtHasOwnGenre(info)
                          THEN IF info["genre"].kind = "list"
                               THEN info["genre"].value[1]
                               ELSE info["genre"].value
                          ELSE SpecificCategories(info["categories"])[1]
      [] key = "album_art_url" ->
            IF "thumbnail" \in DOMAIN info THEN info["thumbnail"]
            ELSE LargestThumbnail(info["thumbnails"]).url

MetadataKeys == {"title", "artist", "album", "track", "year", "genre", "album_art_url"}

\* lines 225-286
get_metadata_from_youtube(info) ==
    [key \in {k \in MetadataKeys : YtHas(info, k)} |-> YtValue(info, key)]

-----------------------------------------------------------------------------
(* enrich_metadata as one call: mb is what search_musicbrainz returns *)

\* lines 288-302
enrich_metadata(basic, auto, mb) ==
    IF ~auto THEN basic
    ELSE IF Truthy(Get(basic, "title")) THEN EnrichMerge(basic, mb)
    ELSE basic

\* is search_musicbrainz called at all (lines 290-297)
LookupIsMade(basic, auto) == auto /\ Truthy(Get(basic, "title"))

-----------------------------------------------------------------------------
(* update_metadata *)

\* the ID3 frames a key of the record is written to (lines 575-598)
FramesOf(key) ==
    CASE key = "title"  -> {"TIT2"}
      [] key = "artist" -> {"TPE1", "TPE2"}
      [] key = "album"  -> {"TALB"}
      [] key = "track"  -> {"TRCK"}
      [] key = "year"   -> {"TYER"}
      [] key = "genre"  -> {"TCON"}
      [] OTHER          -> {}

KeyOfFrame(frame) ==
    CHOOSE key \in {"title", "artist", "album", "track", "year", "genre"} :
        frame \in FramesOf(key)

\* the text frames of lines 575-598
TextFrames(metadata) ==
    [f \in UNION {FramesOf(k) : k \in DOMAIN metadata} |-> metadata[KeyOfFrame(f)]]

\* line 602: self.download_album_art is the flag that __init__ stored under
\* the name of the method (line 21), so the call is a call of a bool and raises
AlbumArtCallRaises(download_album_art_attr) == download_album_art_attr \in BOOLEAN

\* lines 600-628: is audio.save of line 629 reached
SaveReached(metadata, download_album_art_attr) ==
    ~(/\ download_album_art_attr
      /\ "album_art_url" \in DOMAIN metadata
      /\ AlbumArtCallRaises(download_album_art_attr))

\* lines 559-634: [ok |-> the value returned, saved |-> were the tags saved,
\* tags |-> the frames saved].  save_ok: audio.save does not raise.
update_metadata(is_file, metadata, download_album_art_attr, save_ok) ==
    IF ~is_file THEN [ok |-> FALSE, saved |-> FALSE, tags |-> EmptyDict]
    ELSE IF /\ download_album_art_attr
            /\ "album_art_url" \in DOMAIN metadata
            /\ AlbumArtCallRaises(download_album_art_attr)
         THEN [ok |-> FALSE, saved |-> FALSE, tags |-> EmptyDict]
         ELSE IF save_ok
              THEN [ok |-> TRUE, saved |-> TRUE, tags |-> TextFrames(metadata)]
              ELSE [ok |-> FALSE, saved |-> FALSE, tags |-> EmptyDict]

-----------------------------------------------------------------------------
(* download_song: destination *)

PathSep == <<"/">>

\* os.path.join(a, b) for a relative b
PathJoin(a, b) == a \o PathSep \o b

\* lines 338-347: folder_name
SongFolderName(record) ==
    LET artist == GetOr(record, "artist", UnknownArtist)
        album == GetOr(record, "album", S_Single)
    IN  IF album = S_Single \/ ~Truthy(album)
        THEN sanitize_filename(artist)
        ELSE sanitize_filename(artist \o PathSep \o album)

\* a mutant: the user's values are laid over the two defaults
FallbackMetadata_filled(metadata) ==
    Merge([title |-> UnknownTitle, artist |-> UnknownArtist], metadata)

\* line 358: the record used when the probe failed
FallbackMetadata(metadata) ==
    IF DOMAIN metadata # {} THEN metadata
    ELSE [title |-> UnknownTitle, artist |-> UnknownArtist]

-----------------------------------------------------------------------------
(* Titles the parser is run on *)

TitleAlphabet == {"a", "f", "t", "F", " ", "-", EnDash, ":", "."}

T_ArtistFtSomeoneSong ==
    <<"A","r","t","i","s","t"," ","f","t","."," ","S","o","m","e","o","n","e",
      " ","-"," ","S","o","n","g">>
T_ArtistFtSomeone ==
    <<"A","r","t","i","s","t"," ","f","t","."," ","S","o","m","e","o","n","e">>
T_Artist == <<"A","r","t","i","s","t">>
T_Song == <<"S","o","n","g">>
T_ABC == <<"A"," ","-"," ","B",":"," ","C">>
T_JayZSong == <<"J","a","y","-","Z"," ","-"," ","S","o","n","g">>
T_JayZ == <<"J","a","y","-","Z">>
T_SongTitleFeatGuest ==
    <<"S","o","n","g","T","i","t","l","e"," ","f","e","a","t","."," ","G","u","e","s","t">>
T_RandomPhrase == <<"R","a","n","d","o","m","P","h","r","a","s","e">>
T_ReZero == <<"R","e",":","Z","e","r","o">>
T_aFTb == <<"a"," ","F","T"," ","b">>
T_EnDash == <<"A"," ",EnDash," ","B","-","C">>

TitleExamples ==
    {T_ArtistFtSomeoneSong, T_ABC, T_JayZSong, T_JayZ, T_SongTitleFeatGuest,
     T_RandomPhrase, T_ReZero, T_aFTb, T_EnDash}

TitleInputs == StringsUpTo(TitleAlphabet, MaxTitleLen) \cup TitleExamples

-----------------------------------------------------------------------------
(* Inputs of enrich_metadata and answers of the two services *)

V_SrcTitle  == <<"s","T">>
V_SrcArtist == <<"s","A">>
V_SrcAlbum  == <<"s","L">>
V_SrcYear   == <<"2","0","0","1">>
V_SrcGenre  == <<"s","G">>
V_SrcTrack  == <<"9">>
V_SrcArt    == <<"s","U">>

V_MbTitle   == <<"m","T">>
V_MbArtist  == <<"m","A">>
V_MbArtist2 == <<"m","B">>
V_MbAlbum   == <<"m","L">>
V_MbDate    == <<"2","0","1","9","-","0","5">>
V_MbYear    == <<"2","0","1","9">>
V_MbTrack   == <<"7">>
V_MbId      == <<"m","I">>
V_MbArt     == <<"m","U">>
V_MbArt2    == <<"m","V">>
V_Rock      == <<"r">>
V_Pop       == <<"p">>

\* records enrich_metadata is called with
BasicRecords ==
    {[title |-> V_SrcTitle],
     [title |-> V_SrcTitle, artist |-> V_SrcArtist],
     [title |-> V_SrcTitle, artist |-> V_SrcArtist, album |-> V_SrcAlbum,
      year |-> V_SrcYear, genre |-> V_SrcGenre, track |-> V_SrcTrack,
      album_art_url |-> V_SrcArt],
     [artist |-> V_SrcArtist]}

\* the recordings of an answer, by the ratios they have against the query
\* (hundredths): weighted 0.6 twice, 0.61, 1.0, 0.0, 0.4 and 0.76 with a
\* query artist; 0.8, 0.56, 0.566 and 0.2 without
Recordings ==
    {[title_score |-> 100, artist_score |-> 0],
     [title_score |-> 60,  artist_score |-> 60],
     [title_score |-> 61,  artist_score |-> 61],
     [title_score |-> 100, artist_score |-> 100],
     [title_score |-> 0,   artist_score |-> 0],
     [title_score |-> 0,   artist_score |-> 100],
     [title_score |-> 60,  artist_score |-> 100]}

SeqsUpTo(S, n) == UNION {[1..k -> S] : k \in 0..n}

FailureKinds == {"transport_error", "non200", "bad_json", "bad_shape"}

\* what the best match may hold
CreditOptions ==
    {<<>>,
     <<[kind |-> "artist", name |-> V_MbArtist]>>,
     <<[kind |-> "artist", name |-> V_MbArtist], [kind |-> "name", name |-> V_MbArtist2]>>,
     <<[kind |-> "other", name |-> <<>>]>>}

TagOptions ==
    {<<>>,
     <<[name |-> V_Rock, count |-> 1], [name |-> V_Pop, count |-> 2]>>,
     <<[name |-> V_Rock, count |-> 2], [name |-> V_Pop, count |-> 2]>>,
     <<[count |-> 3], [name |-> V_Rock, count |-> 1]>>}

ReleaseKeys == {"title", "date", "track-number", "id"}

ReleaseValues(key) ==
    CASE key = "title" -> {V_MbAlbum}
      [] key = "date" -> {<<>>, V_MbDate}
      [] key = "track-number" -> {V_MbTrack}
      [] key = "id" -> {V_MbId}

ReleaseDicts ==
    {r \in UNION {[D -> {V_MbAlbum, <<>>, V_MbDate, V_MbTrack, V_MbId}] : D \in SUBSET ReleaseKeys} :
        \A k \in DOMAIN r : r[k] \in ReleaseValues(k)}

ReleaseOptions == {<<>>} \cup {<<r>> : r \in ReleaseDicts}

BestMatches ==
    [title : {None, V_MbTitle}, credits : CreditOptions, tags : TagOptions,
     releases : ReleaseOptions]

\* an image that is flagged front holds V_MbArt2 and another V_MbArt, or none
Images ==
    {[front |-> FALSE, image |-> V_MbArt], [front |-> TRUE, image |-> V_MbArt2],
     [front |-> FALSE, image |-> None], [front |-> TRUE, image |-> None]}

CoverFailureKinds == {"transport_error", "non200", "bad_json"}

CoverAnswers ==
    {[kind |-> k, images |-> <<>>] : k \in CoverFailureKinds}
    \cup {[kind |-> "ok", images |-> i] : i \in SeqsUpTo(Images, MaxImages)}

NoCover == [kind |-> "none", images |-> <<>>]

-----------------------------------------------------------------------------
(* enrich_metadata, with search_musicbrainz and get_cover_art_url in it *)

LookupIdle ==
    /\ l_pc = "off"
    /\ basic_metadata = EmptyDict
    /\ l_passed = EmptyDict
    /\ l_kind = "none"
    /\ l_recordings = <<>>
    /\ l_best_match = 0
    /\ l_best_score = 0
    /\ l_metadata = EmptyDict
    /\ l_cover = NoCover
    /\ mb_metadata = EmptyDict
    /\ l_raised = FALSE

LookupInit ==
    /\ l_pc = "start"
    /\ basic_metadata \in BasicRecords
    /\ l_passed = basic_metadata
    /\ l_kind = "none"
    /\ l_recordings = <<>>
    /\ l_best_match = 0
    /\ l_best_score = 0
    /\ l_metadata = EmptyDict
    /\ l_cover = NoCover
    /\ mb_metadata = EmptyDict
    /\ l_raised = FALSE

\* "if artist:" (line 95 and line 121)
HasArtist == Truthy(Get(basic_metadata, "artist"))

\* lines 290-296: without auto_metadata or without a title nothing is looked up
EnrichStart ==
    /\ l_pc = "start"
    /\ l_pc' = IF auto_metadata /\ Truthy(Get(basic_metadata, "title"))
               THEN "search" ELSE "returned"
    /\ UNCHANGED <<basic_metadata, l_passed, l_kind, l_recordings,
                   l_best_match, l_best_score, l_metadata, l_cover, mb_metadata,
                   l_raised>>
    /\ UNCHANGED notLookup

\* lines 93-131 and 182-185: the request, the scoring loop and the acceptance
SearchRecordings ==
    /\ l_pc = "search"
    /\ \E kind \in FailureKinds \cup {"ok"} :
       \E recordings \in IF kind = "ok"
                         THEN SeqsUpTo(Recordings, MaxRecordings)
                         ELSE {<<>>} :
          LET raised == kind \in {"transport_error", "bad_json", "bad_shape"}
              best == ScoreLoop(recordings, HasArtist, 1, 0, InitialBestScore)
              accepted == /\ kind = "ok"
                          /\ Len(recordings) > 0
                          /\ Accepted(best[1], best[2])
              out == TryExcept(raised, EmptyDict)
          IN  /\ l_kind' = kind
              /\ l_recordings' = recordings
              /\ l_best_match' = best[1]
              /\ l_best_score' = best[2]
              /\ IF accepted
                 THEN /\ l_pc' = "build"
                      /\ UNCHANGED <<mb_metadata, l_raised>>
                 ELSE /\ l_pc' = "searched"
                      /\ mb_metadata' = out.value
                      /\ l_raised' = out.raised
    /\ UNCHANGED <<basic_metadata, l_passed, l_metadata, l_cover>>
    /\ UNCHANGED notLookup

\* lines 132-174 (and 180 when no cover art is asked for).  What the best
\* match holds is read only here, so it is drawn here; the recordings and
\* the scores are not read after line 131 and are dropped from the state.
BuildMetadata ==
    /\ l_pc = "build"
    /\ \E best \in BestMatches :
          LET raised == BuildRaises(best)
              out == TryExcept(raised, FilterNone(BuildMetadataDict(best)))
          IN  IF ~raised /\ Truthy(ReleaseId(best))
              THEN /\ l_pc' = "cover"
                   /\ l_metadata' = BuildMetadataDict(best)
                   /\ UNCHANGED <<l_kind, mb_metadata, l_raised>>
              ELSE /\ l_pc' = "searched"
                   /\ l_metadata' = IF raised THEN EmptyDict ELSE BuildMetadataDict(best)
                   /\ l_kind' = IF raised THEN "bad_shape" ELSE l_kind
                   /\ mb_metadata' = out.value
                   /\ l_raised' = out.raised
    /\ l_recordings' = <<>>
    /\ l_best_match' = 0
    /\ l_best_score' = 0
    /\ UNCHANGED <<basic_metadata, l_passed, l_cover>>
    /\ UNCHANGED notLookup

\* lines 175-180 with get_cover_art_url (lines 187-209)
GetCoverArtUrl ==
    /\ l_pc = "cover"
    /\ \E cover \in CoverAnswers :
          LET got == get_cover_art_url(cover)
              metadata == IF ~got.raised /\ Truthy(got.url)
                          THEN Put(l_metadata, "album_art_url", got.url)
                          ELSE l_metadata
              out == TryExcept(got.raised, FilterNone(metadata))
          IN  /\ l_cover' = cover
              /\ mb_metadata' = out.value
              /\ l_raised' = out.raised
    /\ l_pc' = "searched"
    /\ UNCHANGED <<basic_metadata, l_passed, l_kind, l_recordings,
                   l_best_match, l_best_score, l_metadata>>
    /\ UNCHANGED notLookup

\* lines 297-302: the keys the lookup returned overwrite the record's
EnrichMergeStep ==
    /\ l_pc = "searched"
    /\ IF l_raised
       THEN /\ l_pc' = "raised"
            /\ UNCHANGED basic_metadata
       ELSE /\ l_pc' = "returned"
            /\ basic_metadata' = EnrichMerge(basic_metadata, mb_metadata)
    /\ UNCHANGED <<l_passed, l_kind, l_recordings, l_best_match,
                   l_best_score, l_metadata, l_cover, mb_metadata, l_raised>>
    /\ UNCHANGED notLookup

LookupNext ==
    \/ EnrichStart
    \/ SearchRecordings
    \/ BuildMetadata
    \/ GetCoverArtUrl
    \/ EnrichMergeStep

-----------------------------------------------------------------------------
(* Inputs of download_song *)

V_UsrArtist == <<"u","A">>
V_UsrSlash  == <<"A","/","B">>
V_UsrAlbum  == <<"u","L">>
V_UsrTitle  == <<"u","T">>
V_UsrYear   == <<"1","9","9","9">>
V_UsrGenre  == <<"u","G">>

OverrideKeys == {"artist", "album", "title", "year", "genre"}

OverrideValues(key) ==
    CASE key = "artist" -> {V_UsrArtist, V_UsrSlash}
      [] key = "album"  -> {V_UsrAlbum, S_Single}
      [] key = "title"  -> {V_UsrTitle}
      [] key = "year"   -> {V_UsrYear}
      [] key = "genre"  -> {V_UsrGenre}

AllOverrideValues == UNION {OverrideValues(k) : k \in OverrideKeys}

\* the dict main builds from the command line (lines 676-685)
Overrides ==
    {m \in UNION {[D -> AllOverrideValues] : D \in SUBSET OverrideKeys} :
        \A k \in DOMAIN m : m[k] \in OverrideValues(k)}

T_SrcArtistTitle == <<"s","A"," ","-"," ","s","T">>
V_Uploader   == <<"U","p">>
V_TopicChannel == <<"C","h"," ","-"," ","T","o","p","i","c">>
V_UploadDate == <<"2","0","0","1","0","2","0","3">>

\* what the probe of a video may answer
SongInfos ==
    {[title |-> T_SrcArtistTitle],
     [title |-> V_SrcTitle, uploader |-> V_Uploader, album |-> V_SrcAlbum,
      upload_date |-> V_UploadDate, thumbnail |-> V_SrcArt,
      genre |-> [kind |-> "str", value |-> V_SrcGenre]],
     [title |-> T_SrcArtistTitle, channel |-> V_TopicChannel, album |-> S_Single,
      playlist_index |-> 12, categories |-> <<S_music, V_SrcGenre>>,
      thumbnails |-> <<[url |-> V_SrcArt, width |-> 1, height |-> 1],
                       [url |-> V_MbArt, width |-> 2, height |-> 2]>>],
     [title |-> V_SrcTitle, upload_date |-> None]}

\* what search_musicbrainz may return: any of title, artist and genre, and of
\* the release nothing, the album, the album and the year, or all of it
ReleaseParts ==
    {EmptyDict,
     [album |-> V_MbAlbum],
     [album |-> V_MbAlbum, year |-> V_MbYear],
     [album |-> V_MbAlbum, year |-> V_MbYear, track |-> V_MbTrack,
      album_art_url |-> V_MbArt]}

RecordingParts ==
    {m \in UNION {[D -> {V_MbTitle, V_MbArtist, V_Rock}] : D \in SUBSET {"title", "artist", "genre"}} :
        /\ "title" \in DOMAIN m => m["title"] = V_MbTitle
        /\ "artist" \in DOMAIN m => m["artist"] = V_MbArtist
        /\ "genre" \in DOMAIN m => m["genre"] = V_Rock}

MbResults == {Merge(a, b) : a \in RecordingParts, b \in ReleaseParts}

OutputDir == <<"d">>

NotWritten == [ok |-> FALSE, saved |-> FALSE, tags |-> EmptyDict]

-----------------------------------------------------------------------------
(* download_song *)

SongIdle ==
    /\ s_pc = "off"
    /\ s_metadata = EmptyDict
    /\ s_probe = "none"
    /\ s_info = EmptyDict
    /\ s_youtube = EmptyDict
    /\ s_mb = EmptyDict
    /\ final_metadata = EmptyDict
    /\ output_path = <<>>
    /\ s_file = "none"
    /\ s_written = NotWritten
    /\ s_save = "none"
    /\ s_return = FALSE

SongInit ==
    /\ s_pc = "start"
    /\ s_metadata \in Overrides
    /\ s_probe = "none"
    /\ s_info = EmptyDict
    /\ s_youtube = EmptyDict
    /\ s_mb = EmptyDict
    /\ final_metadata = EmptyDict
    /\ output_path = <<>>
    /\ s_file = "none"
    /\ s_written = NotWritten
    /\ s_save = "none"
    /\ s_return = FALSE

\* lines 324-332, and 355-361 when the probe or the extraction raises (a
\* probe that answers None makes info.get raise)
SongProbe ==
    /\ s_pc = "start"
    /\ \E probe \in {"raise", "none", "info"} :
       \E info \in IF probe = "info" THEN SongInfos ELSE {EmptyDict} :
          /\ s_probe' = probe
          /\ s_info' = info
          /\ IF probe = "info" /\ ~GetMetadataRaises(info)
             THEN /\ s_youtube' = get_metadata_from_youtube(info)
                  /\ final_metadata' = Merge(get_metadata_from_youtube(info), s_metadata)
                  /\ s_pc' = "enrich"
                  /\ UNCHANGED output_path
             ELSE /\ s_youtube' = EmptyDict
                  /\ final_metadata' = FallbackMetadata(s_metadata)
                  /\ output_path' = PathJoin(OutputDir, UnknownArtist)
                  /\ s_pc' = "download"
    /\ UNCHANGED <<s_metadata, s_mb, s_file, s_written, s_save, s_return>>
    /\ UNCHANGED notSong

\* line 335
SongEnrich ==
    /\ s_pc = "enrich"
    /\ \E mb \in IF LookupIsMade(final_metadata, auto_metadata)
                 THEN MbResults ELSE {EmptyDict} :
          /\ s_mb' = mb
          /\ final_metadata' = enrich_metadata(final_metadata, auto_metadata, mb)
    /\ s_pc' = "layout"
    /\ UNCHANGED <<s_metadata, s_probe, s_info, s_youtube, output_path, s_file,
                   s_written, s_save, s_return>>
    /\ UNCHANGED notSong

\* lines 338-353
SongLayout ==
    /\ s_pc = "layout"
    /\ output_path' = PathJoin(OutputDir, SongFolderName(final_metadata))
    /\ s_pc' = "download"
    /\ UNCHANGED <<s_metadata, s_probe, s_info, s_youtube, s_mb, final_metadata,
                   s_file, s_written, s_save, s_return>>
    /\ UNCHANGED notSong

\* lines 364-367 and 374-389
SongDownload ==
    /\ s_pc = "download"
    /\ \E file \in {"raise", "missing", "exists"} :
          /\ s_file' = file
          /\ s_pc' = IF file = "exists" THEN "update" ELSE "done"
    /\ s_return' = FALSE
    /\ UNCHANGED <<s_metadata, s_probe, s_info, s_youtube, s_mb, final_metadata,
                   output_path, s_written, s_save>>
    /\ UNCHANGED notSong

\* lines 370-373: the file is returned whatever update_metadata answers
SongUpdateMetadata ==
    /\ s_pc = "update"
    /\ \E save_ok \in BOOLEAN :
          /\ s_written' = update_metadata(TRUE, final_metadata, download_album_art, save_ok)
          /\ s_save' = IF ~SaveReached(final_metadata, download_album_art) THEN "none"
                       ELSE IF save_ok THEN "ok" ELSE "raise"
    /\ s_return' = TRUE
    /\ s_pc' = "done"
    /\ UNCHANGED <<s_metadata, s_probe, s_info, s_youtube, s_mb, final_metadata,
                   output_path, s_file>>
    /\ UNCHANGED notSong

SongNext ==
    \/ SongProbe
    \/ SongEnrich
    \/ SongLayout
    \/ SongDownload
    \/ SongUpdateMetadata

-----------------------------------------------------------------------------
(* Inputs of download_album *)

V_PlaylistTitle == <<"p","T">>
V_PlaylistUploader == <<"p","U">>

AlbumOverrides ==
    {EmptyDict,
     [artist |-> V_UsrArtist],
     [artist |-> V_UsrArtist, album |-> V_UsrAlbum, year |-> V_UsrYear,
      genre |-> V_UsrGenre]}

\* the playlist as the flat extraction answers it, without its entries
PlaylistHeaders ==
    {m \in UNION {[D -> {V_PlaylistTitle, V_PlaylistUploader, V_TopicChannel}] :
                    D \in SUBSET {"title", "uploader", "channel"}} :
        /\ "title" \in DOMAIN m => m["title"] = V_PlaylistTitle
        /\ "uploader" \in DOMAIN m => m["uploader"] = V_PlaylistUploader
        /\ "channel" \in DOMAIN m => m["channel"] = V_TopicChannel}

\* the probe of one entry in the first-track loop (lines 437-449): the flat
\* entry is None, the probe raises or answers None, or it answers an info
FirstTrackProbes ==
    {[kind |-> "none", info |-> EmptyDict],
     [kind |-> "raise", info |-> EmptyDict],
     [kind |-> "info", info |-> [title |-> V_SrcTitle]],
     [kind |-> "info", info |-> [title |-> T_SrcArtistTitle]]}

\* the entry at position idx of the downloaded playlist
EntryInfos(idx) ==
    {[title |-> T_SrcArtistTitle, playlist_index |-> idx],
     [title |-> V_SrcTitle, uploader |-> V_Uploader, album |-> V_SrcAlbum,
      upload_date |-> V_UploadDate, track |-> V_SrcTrack],
     [title |-> V_SrcTitle, upload_date |-> None]}

\* what search_musicbrainz returns for an entry
AlbumMbResults ==
    {EmptyDict,
     [title |-> V_MbTitle],
     [title |-> V_MbTitle, artist |-> V_MbArtist, genre |-> V_Rock,
      album |-> V_MbAlbum, year |-> V_MbYear],
     [title |-> V_MbTitle, artist |-> V_MbArtist, genre |-> V_Rock,
      album |-> V_MbAlbum, year |-> V_MbYear, track |-> V_MbTrack,
      album_art_url |-> V_MbArt]}

-----------------------------------------------------------------------------
(* download_album: the batch defaults *)

\* lines 423-432: the artist of the user, else the uploader, else the channel
HeaderArtist(metadata, header) ==
    IF Truthy(Get(metadata, "artist")) THEN metadata["artist"]
    ELSE IF "uploader" \in DOMAIN header /\ Truthy(header["uploader"])
         THEN header["uploader"]
         ELSE IF /\ "channel" \in DOMAIN header
                 /\ Truthy(header["channel"])
                 /\ CleanChannel(header["channel"]) # <<>>
              THEN CleanChannel(header["channel"])
              ELSE None

\* lines 435-449: the artist extracted from the first entry that has one
RECURSIVE FirstTrackArtist(_)
FirstTrackArtist(probes) ==
    IF probes = <<>> THEN None
    ELSE LET probe == Head(probes)
             potential_artist ==
                 GetOr(get_metadata_from_youtube(probe.info), "artist", <<>>)
         IN  IF /\ probe.kind = "info"
                /\ ~GetMetadataRaises(probe.info)
                /\ Truthy(potential_artist)
                /\ potential_artist # UnknownArtist
             THEN potential_artist
             ELSE FirstTrackArtist(Tail(probes))

\* lines 423-452
ResolveArtist(metadata, header, probes) ==
    IF Truthy(HeaderArtist(metadata, header)) THEN HeaderArtist(metadata, header)
    ELSE IF Truthy(FirstTrackArtist(probes)) THEN FirstTrackArtist(probes)
    ELSE S_VariousArtists

\* lines 417-420
ResolveAlbum(metadata, header) ==
    GetOr(metadata, "album", GetOr(header, "title", S_UnknownAlbum))

\* line 455
AlbumFolder(artist, album) == sanitize_filename(artist \o PathSep \o album)

\* lines 460-468
BaseMetadata(artist, album, metadata) ==
    FilterNone([artist |-> artist, album |-> album,
                year |-> Get(metadata, "year"), genre |-> Get(metadata, "genre")])

-----------------------------------------------------------------------------
(* download_album: one entry *)

\* lines 521-526: a generic artist is replaced by the one of the title
BetterArtist(record, entry) ==
    LET extracted_artist == extract_title_artist(GetOr(entry, "title", <<>>))[1]
    IN  IF /\ Get(record, "artist") \in {UnknownArtist, S_VariousArtists, None}
           /\ Truthy(extracted_artist)
           /\ extracted_artist # UnknownArtist
        THEN Put(record, "artist", extracted_artist)
        ELSE record

\* lines 512-526: the record passed to enrich_metadata
TrackMetadata(entry, base, idx) ==
    BetterArtist(Put(Merge(get_metadata_from_youtube(entry), base), "track", ToStr(idx)),
                 entry)

\* a mutant: the record is base_metadata itself, so what enrich_metadata
\* writes into the record is written into base_metadata
BaseAfterEntry_shared(base, record) == [k \in DOMAIN base |-> record[k]]

\* line 515: {**track_youtube_metadata, **base_metadata} is a new dict, so
\* the assignments of lines 518, 526 and 299-300 to the record leave
\* base_metadata as it was
BaseAfterEntry(base, record) == base

\* a mutant: a failed entry is not recorded
MarkFailed_forget(failed, idx) == failed

\* lines 498, 508 and 543
MarkFailed(failed, idx) == Append(failed, idx)

\* a mutant: a file whose tags were not written is not counted
MarkDownloaded_onlytagged(downloaded, idx, ok) ==
    IF ok THEN Append(downloaded, idx) ELSE downloaded

\* lines 534-539: the file is appended whatever update_metadata returned
MarkDownloaded(downloaded, idx, ok) == Append(downloaded, idx)

-----------------------------------------------------------------------------
(* download_album *)

AlbumIdle ==
    /\ a_pc = "off"
    /\ album_metadata = EmptyDict
    /\ a_n = 0
    /\ artist_name = <<>>
    /\ album_name = <<>>
    /\ album_path = <<>>
    /\ base_metadata = EmptyDict
    /\ a_fetched = 0
    /\ a_idx = 0
    /\ downloaded_files = <<>>
    /\ failed_videos = <<>>
    /\ a_outcome = "none"
    /\ a_entry = EmptyDict
    /\ track_metadata = EmptyDict
    /\ a_mb = EmptyDict
    /\ final_track_metadata = EmptyDict
    /\ a_written = NotWritten

AlbumInit ==
    /\ a_pc = "start"
    /\ album_metadata \in AlbumOverrides
    /\ a_n = 0
    /\ artist_name = <<>>
    /\ album_name = <<>>
    /\ album_path = <<>>
    /\ base_metadata = EmptyDict
    /\ a_fetched = 0
    /\ a_idx = 0
    /\ downloaded_files = <<>>
    /\ failed_videos = <<>>
    /\ a_outcome = "none"
    /\ a_entry = EmptyDict
    /\ track_metadata = EmptyDict
    /\ a_mb = EmptyDict
    /\ final_track_metadata = EmptyDict
    /\ a_written = NotWritten

itemVars == <<a_outcome, a_entry, track_metadata, a_mb, final_track_metadata, a_written>>

\* lines 403-414: the flat extraction raises, or answers no playlist, and
\* the url is handed to download_song
AlbumAsSingle ==
    /\ a_pc = "start"
    /\ a_pc' = "as_single"
    /\ UNCHANGED <<album_metadata, a_n, artist_name, album_name, album_path,
                   base_metadata, a_fetched, a_idx, downloaded_files, failed_videos>>
    /\ UNCHANGED itemVars
    /\ UNCHANGED notAlbum

\* lines 403-468: the flat extraction answers a playlist of n entries; the
\* first-track probes are made only when no artist is known by then
AlbumProbe ==
    /\ a_pc = "start"
    /\ \E header \in PlaylistHeaders :
       \E n \in 0..MaxEntries :
       \E probes \in IF Truthy(HeaderArtist(album_metadata, header))
                     THEN {<<>>} ELSE [1..n -> FirstTrackProbes] :
          /\ a_n' = n
          /\ artist_name' = ResolveArtist(album_metadata, header, probes)
          /\ album_name' = ResolveAlbum(album_metadata, header)
    /\ album_path' = PathJoin(OutputDir, AlbumFolder(artist_name', album_name'))
    /\ base_metadata' = BaseMetadata(artist_name', album_name', album_metadata)
    /\ a_pc' = "download"
    /\ UNCHANGED <<album_metadata, a_fetched, a_idx, downloaded_files, failed_videos>>
    /\ UNCHANGED itemVars
    /\ UNCHANGED notAlbum

\* lines 485-494 and 546-549: extract_info(url, download=True) downloads
\* every entry of the playlist before it returns; when it raises, after any
\* number of them, downloaded_files is empty and the exception leaves
\* download_album
AlbumDownload ==
    /\ a_pc = "download"
    /\ \E raised \in BOOLEAN :
       \E fetched \in IF raised THEN 0..a_n ELSE {a_n} :
          /\ a_fetched' = fetched
          /\ a_pc' = IF raised THEN "raised"
                     ELSE IF a_n = 0 THEN "report" ELSE "loop"
    /\ UNCHANGED <<album_metadata, a_n, artist_name, album_name, album_path,
                   base_metadata, a_idx, downloaded_files, failed_videos>>
    /\ UNCHANGED itemVars
    /\ UNCHANGED notAlbum

\* lines 495-544: the entry at position a_idx + 1
AlbumEntry ==
    /\ a_pc = "loop"
    /\ a_idx < a_n
    /\ LET idx == a_idx + 1
       IN  /\ a_idx' = idx
           /\ a_pc' = IF idx = a_n THEN "report" ELSE "loop"
           /\ \/ \* lines 496-499: the entry is None
                 /\ a_outcome' = "unavailable"
                 /\ a_entry' = EmptyDict
                 /\ failed_videos' = MarkFailed(failed_videos, idx)
                 /\ track_metadata' = EmptyDict
                 /\ a_mb' = EmptyDict
                 /\ final_track_metadata' = EmptyDict
                 /\ a_written' = NotWritten
                 /\ UNCHANGED <<downloaded_files, base_metadata>>
              \/ \* lines 503-509: the file is not there
                 /\ \E entry \in EntryInfos(idx) : a_entry' = entry
                 /\ a_outcome' = "missing"
                 /\ failed_videos' = MarkFailed(failed_videos, idx)
                 /\ track_metadata' = EmptyDict
                 /\ a_mb' = EmptyDict
                 /\ final_track_metadata' = EmptyDict
                 /\ a_written' = NotWritten
                 /\ UNCHANGED <<downloaded_files, base_metadata>>
              \/ \* lines 512 and 541-544: the extraction raises
                 /\ \E entry \in EntryInfos(idx) :
                       /\ GetMetadataRaises(entry)
                       /\ a_entry' = entry
                 /\ a_outcome' = "error"
                 /\ failed_videos' = MarkFailed(failed_videos, idx)
                 /\ track_metadata' = EmptyDict
                 /\ a_mb' = EmptyDict
                 /\ final_track_metadata' = EmptyDict
                 /\ a_written' = NotWritten
                 /\ UNCHANGED <<downloaded_files, base_metadata>>
              \/ \* lines 512-539: extracted, enriched and written
                 /\ \E entry \in EntryInfos(idx) :
                       /\ ~GetMetadataRaises(entry)
                       /\ a_entry' = entry
                 /\ track_metadata' = TrackMetadata(a_entry', base_metadata, idx)
                 /\ \E mb \in IF LookupIsMade(track_metadata', auto_metadata)
                              THEN AlbumMbResults ELSE {EmptyDict} :
                       a_mb' = mb
                 /\ final_track_metadata' =
                       enrich_metadata(track_metadata', auto_metadata, a_mb')
                 /\ \E save_ok \in BOOLEAN :
                       a_written' = update_metadata(TRUE, final_track_metadata',
                                                    download_album_art, save_ok)
                 /\ base_metadata' = BaseAfterEntry(base_metadata, final_track_metadata')
                 /\ a_outcome' = "written"
                 /\ downloaded_files' = MarkDownloaded(downloaded_files, idx, a_written'.ok)
                 /\ UNCHANGED failed_videos
    /\ UNCHANGED <<album_metadata, a_n, artist_name, album_name, album_path,
                   a_fetched>>
    /\ UNCHANGED notAlbum

\* lines 551-557
AlbumReport ==
    /\ a_pc = "report"
    /\ a_pc' = "done"
    /\ UNCHANGED <<album_metadata, a_n, artist_name, album_name, album_path,
                   base_metadata, a_fetched, a_idx, downloaded_files, failed_videos>>
    /\ UNCHANGED itemVars
    /\ UNCHANGED notAlbum

AlbumNext ==
    \/ AlbumAsSingle
    \/ AlbumProbe
    \/ AlbumDownload
    \/ AlbumEntry
    \/ AlbumReport

-----------------------------------------------------------------------------
(* The parser run on one title *)

ParserIdle ==
    /\ p_pc = "off"
    /\ p_title = <<>>
    /\ p_artist = None
    /\ p_out = None

ParserInit ==
    /\ p_pc = "start"
    /\ p_title \in TitleInputs
    /\ p_artist = None
    /\ p_out = None

ExtractTitleArtist ==
    /\ p_pc = "start"
    /\ p_pc' = "done"
    /\ p_artist' = extract_title_artist(p_title)[1]
    /\ p_out' = extract_title_artist(p_title)[2]
    /\ UNCHANGED p_title
    /\ UNCHANGED notParser

-----------------------------------------------------------------------------
(* The extractor run on one info *)

V_PlainChannel == <<"C","h">>
V_ShortDate == <<"2","0">>

ExtractKeys == {"title", "uploader", "channel", "upload_date"}

ExtractValues(key) ==
    CASE key = "title"    -> {V_SrcTitle, T_SrcArtistTitle}
      [] key = "uploader" -> {<<>>, V_Uploader}
      [] key = "channel"  -> {<<>>, V_PlainChannel, V_TopicChannel, S_VEVO}
      [] key = "upload_date" -> {None, <<>>, V_ShortDate, V_SrcYear, V_UploadDate}

\* the infos get_metadata_from_youtube is run on
ExtractInfos ==
    {m \in UNION {[D -> UNION {ExtractValues(k) : k \in ExtractKeys}] :
                    D \in SUBSET ExtractKeys} :
        \A k \in DOMAIN m : m[k] \in ExtractValues(k)}

ExtractIdle ==
    /\ e_pc = "off"
    /\ e_info = EmptyDict
    /\ e_raised = FALSE
    /\ e_metadata = EmptyDict

ExtractInit ==
    /\ e_pc = "start"
    /\ e_info \in ExtractInfos
    /\ e_raised = FALSE
    /\ e_metadata = EmptyDict

\* lines 225-286
GetMetadataFromYoutube ==
    /\ e_pc = "start"
    /\ e_pc' = "done"
    /\ e_raised' = GetMetadataRaises(e_info)
    /\ e_metadata' = IF GetMetadataRaises(e_info) THEN EmptyDict
                     ELSE get_metadata_from_youtube(e_info)
    /\ UNCHANGED e_info
    /\ UNCHANGED notExtract

ExtractNext == GetMetadataFromYoutube

-----------------------------------------------------------------------------
(* Specifications *)

\* extract_title_artist on every title of TitleInputs
ParserNext == ExtractTitleArtist

\* the flags are not read by the parser
CfgIdle == auto_metadata = TRUE /\ download_album_art = TRUE

\* MusicDownloader(output_dir, auto_metadata, download_album_art), lines 17-21
CfgInit == auto_metadata \in BOOLEAN /\ download_album_art \in BOOLEAN

InitParser ==
    CfgIdle /\ ParserInit /\ LookupIdle /\ SongIdle /\ AlbumIdle /\ ExtractIdle

\* get_metadata_from_youtube on every info of ExtractInfos
InitExtract ==
    CfgIdle /\ ExtractInit /\ ParserIdle /\ LookupIdle /\ SongIdle /\ AlbumIdle

SpecExtract == InitExtract /\ [][ExtractNext]_vars

SpecParser == InitParser /\ [][ParserNext]_vars

\* download_song on every dict of Overrides
InitSong ==
    CfgInit /\ SongInit /\ ParserIdle /\ LookupIdle /\ AlbumIdle /\ ExtractIdle

SpecSong == InitSong /\ [][SongNext]_vars

\* download_album on every dict of AlbumOverrides, with the album art left
\* at the constructor's default
InitAlbum ==
    /\ auto_metadata \in BOOLEAN /\ download_album_art = TRUE
    /\ AlbumInit /\ ParserIdle /\ LookupIdle /\ SongIdle /\ ExtractIdle

SpecAlbum == InitAlbum /\ [][AlbumNext]_vars

\* enrich_metadata on every record of BasicRecords
InitLookup ==
    /\ auto_metadata \in BOOLEAN /\ download_album_art = TRUE
    /\ LookupInit /\ ParserIdle /\ SongIdle /\ AlbumIdle /\ ExtractIdle

SpecLookup == InitLookup /\ [][LookupNext]_vars

-----------------------------------------------------------------------------
(* Claims about the title parser *)

SepHyphen == <<" ", "-", " ">>
SepEnDash == <<" ", EnDash, " ">>
SepColon  == <<" ", ":", " ">>

\* the split of a title at the first occurrence of a space-delimited separator
SplitAtFirst(title, sep) ==
    LET at == Find(title, sep)
    IN  <<Strip(SubSeq(title, 1, at - 1)), Strip(Drop(title, at + Len(sep)))>>

NoFeatMarker(title) ==
    \A m \in 1..Len(FeatMarkers) : ~Contains(Lower(title), FeatMarkers[m])

\* C5: every title A + " - " + B (else A + the en dash separator + B), split at the first
\* occurrence of the space-delimited separator, parses to (trim(A), trim(B)),
\* also when A holds a hyphen or colon that is not surrounded by spaces.
C5_SeparatorRule ==
    p_pc = "done" =>
        /\ Contains(p_title, SepHyphen) =>
              <<p_artist, p_out>> = SplitAtFirst(p_title, SepHyphen)
        /\ (~Contains(p_title, SepHyphen) /\ Contains(p_title, SepEnDash)) =>
              <<p_artist, p_out>> = SplitAtFirst(p_title, SepEnDash)

\* C6 as stated: "Artist ft. Someone - Song" parses to artist "Artist" and
\* title "Song".
C6_FeatThenSeparator_Original ==
    (p_pc = "done" /\ p_title = T_ArtistFtSomeoneSong) =>
        (p_artist = T_Artist /\ p_out = T_Song)

\* C6 amended: "Artist ft. Someone - Song" parses by the separator rule alone,
\* to artist "Artist ft. Someone" (featuring text kept) and title "Song".
C6_FeatThenSeparator ==
    (p_pc = "done" /\ p_title = T_ArtistFtSomeoneSong) =>
        (p_artist = T_ArtistFtSomeone /\ p_out = T_Song)

C6_Witness ==
    p_pc = "done" /\ p_title = T_ArtistFtSomeoneSong /\ p_out = T_Song

\* C7: a title with none of " - ", the en dash separator, " : " and no featuring marker parses
\* to ("Unknown Artist", title), the title unchanged, bare hyphens and colons
\* included.
C7_Fallback ==
    (/\ p_pc = "done"
     /\ ~Contains(p_title, SepHyphen)
     /\ ~Contains(p_title, SepEnDash)
     /\ ~Contains(p_title, SepColon)
     /\ NoFeatMarker(p_title)) =>
        (p_artist = UnknownArtist /\ p_out = p_title)

-----------------------------------------------------------------------------
(* Claims about the lookup *)

\* the weighted score of a recording as the claim gives it, in thousandths
ClaimedScore(recording, has_artist) ==
    6 * recording.title_score
    + 4 * (IF has_artist THEN recording.artist_score ELSE 50)

\* C8: every step of the recording search scores each recording
\* 0.6 * title_score + 0.4 * artist_score (artist_score 0.5 without a query
\* artist), selects the first recording of the strictly highest score, and
\* accepts it only if that score is strictly greater than 0.6; otherwise the
\* lookup returns the empty record.
C8_ScoringAcceptance ==
    [][(l_pc = "search" /\ l_kind' = "ok") =>
        LET recs == l_recordings'
            best == l_best_match'
            sc(i) == ClaimedScore(recs[i], HasArtist)
        IN  /\ best \in 0..Len(recs)
            /\ (best = 0) <=> (\A i \in 1..Len(recs) : sc(i) <= 0)
            /\ (best # 0) =>
                  /\ \A i \in 1..Len(recs) : sc(i) <= sc(best)
                  /\ \A i \in 1..(best - 1) : sc(i) < sc(best)
                  /\ l_best_score' = sc(best)
            /\ (l_pc' = "build") <=> (best # 0 /\ sc(best) > 600)
            /\ (l_pc' # "build") => (l_pc' = "searched" /\ mb_metadata' = EmptyDict)
      ]_vars

\* two recordings tie at 0.61: the first is selected and accepted
C8_Witness ==
    /\ l_pc = "build"
    /\ Len(l_recordings) = 2
    /\ ClaimedScore(l_recordings[1], HasArtist) = 610
    /\ ClaimedScore(l_recordings[2], HasArtist) = 610
    /\ l_best_match = 1

\* C9: search_musicbrainz never raises; a transport error, a non-200 answer
\* or a malformed payload of the recording search gives the empty record; a
\* failure of the cover art request only leaves album_art_url absent, the
\* other fields of the accepted match being returned; and a failed lookup
\* leaves the record passed to enrich_metadata unchanged.
C9_LookupFailure ==
    /\ ~l_raised
    /\ l_pc # "raised"
    /\ (l_pc \in {"searched", "returned"} /\ l_kind \in FailureKinds) =>
          mb_metadata = EmptyDict
    /\ (l_pc \in {"searched", "returned"} /\ l_cover.kind \in CoverFailureKinds) =>
          /\ "album_art_url" \notin DOMAIN mb_metadata
          /\ \A k \in (DOMAIN l_metadata) \ {"album_art_url"} :
                l_metadata[k] # None =>
                    (k \in DOMAIN mb_metadata /\ mb_metadata[k] = l_metadata[k])
    /\ (l_pc = "returned" /\ l_kind \in FailureKinds) =>
          basic_metadata = l_passed

\* the cover art request failed and the title of the match is returned
C9_Witness ==
    /\ l_pc = "returned"
    /\ l_cover.kind = "transport_error"
    /\ "title" \in DOMAIN mb_metadata
    /\ "album_art_url" \notin DOMAIN mb_metadata

-----------------------------------------------------------------------------
(* Claims about download_song *)

\* the probe answered and the extraction did not raise
SongProbed == s_probe = "info" /\ ~GetMetadataRaises(s_info)

\* C1: after download_song has extracted and enriched, every field follows
\* overrides > enrichment > source: a field the user supplied keeps the
\* user's value whatever the lookup returned, a field of the enrichment
\* replaces the source value only when the user did not supply it.
C1_FusionPrecedence ==
    (s_pc \in {"layout", "download", "update", "done"} /\ SongProbed) =>
        \A k \in MetadataKeys :
            /\ k \in DOMAIN s_metadata =>
                  (k \in DOMAIN final_metadata /\ final_metadata[k] = s_metadata[k])
            /\ (k \notin DOMAIN s_metadata /\ k \in DOMAIN s_mb) =>
                  (k \in DOMAIN final_metadata /\ final_metadata[k] = s_mb[k])
            /\ (k \notin DOMAIN s_metadata /\ k \notin DOMAIN s_mb /\ k \in DOMAIN s_youtube) =>
                  (k \in DOMAIN final_metadata /\ final_metadata[k] = s_youtube[k])

\* the folder the claim C4 gives for a final record
ClaimedFolder(record) ==
    LET artist == GetOr(record, "artist", UnknownArtist)
    IN  IF "album" \notin DOMAIN record \/ record["album"] = S_Single
        THEN sanitize_filename(artist)
        ELSE sanitize_filename(artist) \o PathSep \o sanitize_filename(record["album"])

\* C4: the destination folder of download_song is sanitized(artist) when the
\* final record has no album or the album "Single", and otherwise
\* sanitized(artist) + separator + sanitized(album), the separator kept.
C4_FolderLayout ==
    (s_pc \in {"download", "update", "done"} /\ SongProbed) =>
        output_path = PathJoin(OutputDir, ClaimedFolder(final_metadata))

-----------------------------------------------------------------------------
(* Claims about download_album *)

\* the entry processed last reached update_metadata
EntryWritten == a_pc \in {"loop", "report", "done"} /\ a_outcome = "written"

\* the loop over the entries has ended
LoopEnded == a_pc \in {"report", "done"}

Elements(seq) == {seq[i] : i \in DOMAIN seq}

Ascending(seq) == \A i, j \in DOMAIN seq : i < j => seq[i] < seq[j]

\* C2: every entry that reaches update_metadata is written with track equal
\* to its 1-based position in the playlist as a string, whatever track the
\* extraction or the lookup produced.
C2_BatchTrack ==
    EntryWritten =>
        /\ "track" \in DOMAIN final_track_metadata
        /\ final_track_metadata["track"] = ToStr(a_idx)

\* C3, the step: an entry that is unavailable, whose file is missing or
\* whose processing raises gets its index appended to failed_videos, leaves
\* downloaded_files alone, and the loop goes on to the next entry.
C3_FailedStep ==
    (a_pc = "loop" /\ a_idx' = a_idx + 1
        /\ a_outcome' \in {"unavailable", "missing", "error"}) =>
        /\ failed_videos' = Append(failed_videos, a_idx + 1)
        /\ downloaded_files' = downloaded_files
        /\ a_pc' = IF a_idx + 1 < a_n THEN "loop" ELSE "report"

\* C3, the end: when the loop has ended every index of 1..n is in exactly
\* one of downloaded_files and failed_videos, once, and both are ascending.
C3_Accounted ==
    LoopEnded =>
        /\ a_idx = a_n
        /\ Elements(downloaded_files) \cup Elements(failed_videos) = 1..a_n
        /\ Elements(downloaded_files) \cap Elements(failed_videos) = {}
        /\ Len(downloaded_files) + Len(failed_videos) = a_n
        /\ Ascending(downloaded_files)
        /\ Ascending(failed_videos)

\* C3: batch resilience. A failing entry is recorded in failed_videos and
\* the loop continues; at the end of the loop every index 1..n is accounted
\* for in exactly one of the two sequences, the succeeded ones in ascending
\* playlist order.
C3_BatchResilience == [][C3_FailedStep]_vars /\ []C3_Accounted

\* five entries of which the third failed
C3_Witness ==
    /\ a_pc = "done"
    /\ a_n = 5
    /\ failed_videos = <<3>>
    /\ downloaded_files = <<1, 2, 4, 5>>

\* the batch's artist is one that lines 521-526 replace by the title's
GenericArtist == Get(base_metadata, "artist") \in {UnknownArtist, S_VariousArtists}

\* C10: the record written for an entry has the batch's artist, album, year
\* and genre (the user's value or the playlist's default) even when the
\* lookup returned other values for them. A generic batch artist, which the
\* title's artist may replace, is left out of the comparison.
C10_BatchDefaults ==
    EntryWritten =>
        \A k \in DOMAIN base_metadata :
            (k = "artist" => ~GenericArtist) =>
                /\ k \in DOMAIN final_track_metadata
                /\ final_track_metadata[k] = base_metadata[k]

\* C11, the step: an entry whose file is there and whose tags
\* update_metadata did not write (it returned False) is appended to
\* downloaded_files, not to failed_videos, and the loop goes on.
C11_UnwrittenStep ==
    (a_pc = "loop" /\ a_idx' = a_idx + 1
        /\ a_outcome' = "written" /\ ~a_written'.ok) =>
        /\ downloaded_files' = Append(downloaded_files, a_idx + 1)
        /\ failed_videos' = failed_videos
        /\ a_pc' = IF a_idx + 1 < a_n THEN "loop" ELSE "report"

\* C11, the batch: once the loop over the entries runs, nothing takes
\* download_album out of it but its end.
C11_NoAbort == a_pc = "loop" => a_pc' \in {"loop", "report"}

\* C11: tag-write failure isolation. An entry whose tags could not be
\* written still counts as downloaded, is not recorded as failed, and the
\* batch continues; nothing in enrichment or tag writing aborts the batch.
C11_TagWriteIsolation == [][C11_UnwrittenStep /\ C11_NoAbort]_vars

\* the tags of an entry that is not the last were not written, and it is
\* the last of downloaded_files
C11_Witness ==
    /\ a_pc = "loop"
    /\ a_outcome = "written"
    /\ ~a_written.ok
    /\ a_idx < a_n
    /\ downloaded_files # <<>>
    /\ downloaded_files[Len(downloaded_files)] = a_idx
    /\ a_idx \notin Elements(failed_videos)

-----------------------------------------------------------------------------
(* Claims about update_metadata *)

\* update_metadata ran on an existing file with the cover art enabled and
\* an album_art_url in the record, and audio.save, if tried, did not raise
CoverArtCase ==
    /\ s_pc = "done"
    /\ s_file = "exists"
    /\ download_album_art
    /\ "album_art_url" \in DOMAIN final_metadata
    /\ s_save # "raise"

\* C12: with the cover art enabled and an album_art_url in the record,
\* update_metadata on an existing file returns True and has saved every
\* text field of the record (title, artist, album, track, year, genre).
C12_CoverArtTagsWritten ==
    CoverArtCase =>
        /\ s_written.ok
        /\ s_written.saved
        /\ s_written.tags = TextFrames(final_metadata)

-----------------------------------------------------------------------------
(* Claims about get_metadata_from_youtube *)

Present(info, key) == key \in DOMAIN info /\ Truthy(info[key])

\* the artist after the uploader step, as C13 states it
ClaimedUploaderStep(info) ==
    LET parsed == extract_title_artist(GetOr(info, "title", <<>>))[1]
    IN  IF parsed = UnknownArtist /\ Present(info, "uploader")
        THEN info["uploader"]
        ELSE parsed

\* the artist C13 states: the channel replaces the artist only if it is
\* still unknown after the uploader step or the channel contains "Topic"
ClaimedArtist(info) ==
    IF /\ Present(info, "channel")
       /\ \/ ClaimedUploaderStep(info) = UnknownArtist
          \/ Contains(info["channel"], S_Topic)
       /\ CleanChannel(info["channel"]) # <<>>
    THEN CleanChannel(info["channel"])
    ELSE ClaimedUploaderStep(info)

\* C13: the artist of the record is the title's; when that is "Unknown
\* Artist" it is the uploader if one is present; the cleaned channel, if not
\* empty, replaces it only if the artist is still unknown after the uploader
\* step or the channel contains "Topic".
C13_ArtistFallback ==
    (e_pc = "done" /\ ~e_raised) =>
        /\ "artist" \in DOMAIN e_metadata
        /\ e_metadata["artist"] = ClaimedArtist(e_info)

\* the upload_date is a string
DateIsString == "upload_date" \in DOMAIN e_info /\ e_info["upload_date"] # None

\* C14: the record has a year only when upload_date is present and at least
\* 4 characters long, and the year is then its first 4 characters; for a
\* shorter or empty upload_date there is no year and the call does not raise.
C14_Year ==
    (e_pc = "done" /\ ("upload_date" \in DOMAIN e_info => DateIsString)) =>
        IF DateIsString /\ Len(e_info["upload_date"]) >= YearLen
        THEN /\ ~e_raised
             /\ "year" \in DOMAIN e_metadata
             /\ e_metadata["year"] = SubSeq(e_info["upload_date"], 1, YearLen)
        ELSE /\ ~e_raised
             /\ "year" \notin DOMAIN e_metadata

-----------------------------------------------------------------------------
(* More claims about download_album *)

\* C15: the entries are processed one at a time in playlist order, and no
\* step of entry k+1, its download included, begins before entry k is done
\* or recorded as failed: when a_idx entries are finished at most the
\* download of entry a_idx + 1 has been made.
C15_BatchOrdering ==
    a_pc \in {"loop", "report", "done"} =>
        /\ a_idx = Len(downloaded_files) + Len(failed_videos)
        /\ a_fetched <= a_idx + 1

\* the values a lookup can return for a key
LookupValues(key) == {mb[key] : mb \in {r \in AlbumMbResults : key \in DOMAIN r}}

\* seq is extended by nothing or by one element at its end
GrowsByAppend(old, new) ==
    \/ new = old
    \/ (Len(new) = Len(old) + 1 /\ SubSeq(new, 1, Len(old)) = old)

\* C16, the step: processing an entry leaves base_metadata as it was, the
\* two accumulators are only appended to, and a value of the lookup is in
\* the record of the entry only if this entry's own lookup returned it for
\* that key (the track of the playlist position is not the lookup's).
C16_EntryStep ==
    (a_pc = "loop" /\ a_idx' = a_idx + 1) =>
        /\ base_metadata' = base_metadata
        /\ GrowsByAppend(downloaded_files, downloaded_files')
        /\ GrowsByAppend(failed_videos, failed_videos')
        /\ \A k \in DOMAIN final_track_metadata' :
              (/\ final_track_metadata'[k] \in LookupValues(k)
               /\ ~(k = "track" /\ final_track_metadata'[k] = ToStr(a_idx'))) =>
                  (k \in DOMAIN a_mb' /\ a_mb'[k] = final_track_metadata'[k])

\* C16, the batch: from the start of the loop on base_metadata is the one
\* built from the playlist and the user's values.
C16_BaseKept ==
    a_pc \in {"loop", "report", "done"} =>
        base_metadata = BaseMetadata(artist_name, album_name, album_metadata)

\* C16: item isolation. Processing an entry leaves the batch defaults
\* unchanged, the accumulators only grow by appending, and what the lookup
\* returned for one entry is never in the record of another.
C16_ItemIsolation == [][C16_EntryStep]_vars /\ []C16_BaseKept

\* a second or later entry whose record took the lookup's artist and album
\* while base_metadata still holds the user's
C16_Witness ==
    /\ a_pc = "loop"
    /\ a_idx >= 2
    /\ a_outcome = "written"
    /\ Len(downloaded_files) >= 2
    /\ Get(a_mb, "artist") = V_MbArtist
    /\ Get(final_track_metadata, "artist") = V_MbArtist
    /\ Get(final_track_metadata, "album") = V_MbAlbum
    /\ Get(base_metadata, "artist") = V_UsrArtist
    /\ Get(base_metadata, "album") = V_UsrAlbum

-----------------------------------------------------------------------------
(* More claims about download_song *)

\* the probe of download_song was made and failed: it raised, answered
\* None, or the extraction from its answer raised
ProbeFailed == s_pc \in {"download", "update", "done"} /\ ~SongProbed

\* the record C17 gives for a failed probe
ClaimedFallback(metadata) ==
    IF metadata # EmptyDict THEN metadata
    ELSE [title |-> UnknownTitle, artist |-> UnknownArtist]

\* C17, the state: after a failed probe the record is the user's overrides
\* if there are any and the two defaults otherwise, no lookup was made, the
\* folder is "Unknown Artist" under the output directory, the download is
\* made, and the tags written are those of that record.
C17_FallbackState ==
    ProbeFailed =>
        /\ final_metadata = ClaimedFallback(s_metadata)
        /\ s_mb = EmptyDict
        /\ s_youtube = EmptyDict
        /\ output_path = OutputDir \o PathSep \o UnknownArtist
        /\ s_pc = "done" => s_file \in {"raise", "missing", "exists"}
        /\ (s_pc = "done" /\ s_file = "exists") =>
              /\ s_return
              /\ s_written.saved => s_written.tags = TextFrames(ClaimedFallback(s_metadata))

\* C17, the step: after a failed probe the next step is the download, and
\* neither the record nor the folder changes any more.
C17_FallbackStep ==
    ProbeFailed =>
        /\ s_pc = "download" => s_file' # "none"
        /\ final_metadata' = final_metadata
        /\ output_path' = output_path
        /\ s_mb' = s_mb

\* C17: when the probe of download_song fails the download is still made,
\* the record used for the tags is exactly the user's overrides if any were
\* given and {title: "Unknown Title", artist: "Unknown Artist"} otherwise,
\* no lookup is made, and the folder is "Unknown Artist" under the output
\* directory even when the user gave an artist.
C17_ProbeFailure == []C17_FallbackState /\ [][C17_FallbackStep]_vars

\* the probe raised, the user gave an artist, the file was downloaded into
\* "Unknown Artist" and tagged with the user's record
C17_Witness ==
    /\ s_pc = "done"
    /\ s_probe = "raise"
    /\ Get(s_metadata, "artist") = V_UsrArtist
    /\ s_file = "exists"
    /\ s_return
    /\ output_path = OutputDir \o PathSep \o UnknownArtist
    /\ final_metadata = s_metadata
    /\ s_written.saved
    /\ s_written.tags = TextFrames(s_metadata)

=============================================================================
